---- MODULE Spec2Model ----
(***************************************************************************)
(* Learning-progress API (src/main.py, src/models.py): the per-(user, unit)*)
(* progress record, the step gate, test and review submission, and the    *)
(* attempt tables.                                                         *)
(*                                                                         *)
(* Strings that the code trims (answers, correct answers) are sequences of *)
(* one-character strings; a score is kept in hundredths of a percent, so   *)
(* 8000 is 80.00.  A nullable column holds <<>> (NULL) or <<v>>.           *)
(***************************************************************************)
EXTENDS Integers, Sequences, FiniteSets, TLC

VARIABLES
    users,            \* ids of the rows of table users (models.User)
    units,            \* main.units: unit id -> unit
    questions,        \* main.questions: question id -> question
    review_sets,      \* main.review_sets: review set id -> review set
    progress,         \* table user_unit_progress: <<user_id, unit_id>> -> row
    test_attempts,    \* table unit_test_attempts, in insertion order
    review_attempts,  \* table review_attempts, in insertion order
    user_badges,      \* main.user_badges: user id -> list of badge ids
    resp,             \* the request last served and its response
    review_pending,   \* history: pairs whose last failed test is not yet
                      \* followed by a cleared review or a start
    sessions,         \* the requests in flight: what each has loaded
    episode           \* history: the database when the requests in flight
                      \* began, and those requests

vars == <<users, units, questions, review_sets, progress, test_attempts,
          review_attempts, user_badges, resp, review_pending, sessions, episode>>

inflight == <<sessions, episode>>

catalog == <<users, units, questions, review_sets>>

----------------------------------------------------------------------------
(* Bounds of the model. *)

\* longest answer list among Batches
MaxAnswers == 4
\* rows kept in unit_test_attempts and in review_attempts; a request that
\* would add one more is not made
MaxTestAttempts == 2
MaxReviewAttempts == 1
\* datetime.utcnow() returns one of 1..MaxTime
MaxTime == 1

----------------------------------------------------------------------------
(* Seed data of main.py. *)

Step(id, order, type) == [stepId |-> id, stepOrder |-> order, stepType |-> type]

SeedUnits ==
    "unit_1" :> [unitId |-> "unit_1",
                 steps |-> << Step("st_1", 1, "intro"),
                              Step("st_2", 2, "example"),
                              Step("st_3", 3, "practice"),
                              Step("st_4", 4, "test") >>]

Question(id, unit, type, answer) ==
    [questionId |-> id, unitId |-> unit, stepType |-> type, correctAnswer |-> answer]

SeedQuestions ==
       "q_pr_1" :> Question("q_pr_1", "unit_1", "practice", <<"5">>)
    @@ "q_t_1"  :> Question("q_t_1",  "unit_1", "test",     <<"A">>)
    @@ "q_r_1"  :> Question("q_r_1",  "unit_1", "review",   <<"7">>)
    @@ "q_r_2"  :> Question("q_r_2",  "unit_1", "review",   <<"6">>)
    @@ "q_r_3"  :> Question("q_r_3",  "unit_1", "review",   <<"5">>)
    @@ "q_r_4"  :> Question("q_r_4",  "unit_1", "review",   <<"8">>)
    @@ "q_r_5"  :> Question("q_r_5",  "unit_1", "review",   <<"5">>)

SeedReviewSets ==
    "rs_1" :> [reviewSetId |-> "rs_1", unitId |-> "unit_1",
               questionIds |-> <<"q_r_1", "q_r_2", "q_r_3", "q_r_4", "q_r_5">>,
               requiredCorrectCount |-> 4]

\* passed = score >= 80
PassThreshold == 80

----------------------------------------------------------------------------
(* Inputs of the requests. *)

\* unit ids of request paths: the seeded unit and one no unit has
UnitIds == {"unit_1", "unit_9"}

\* the path parameter step_type: StepType
StepTypes == {"intro", "example", "practice", "test"}

\* review set ids of request bodies: the seeded one and one no set has
ReviewSetIds == {"rs_1", "rs_9"}

Answer(q, a) == [questionId |-> q, answer |-> a]

\* the answers of the review sheet: four questions of rs_1 answered rightly
\* (one with a trailing blank) and the fifth wrongly
ReviewSheet ==
    << Answer("q_r_1", <<"7">>),
       Answer("q_r_2", <<"6", " ">>),
       Answer("q_r_3", <<"5">>),
       Answer("q_r_4", <<"8">>),
       Answer("q_r_5", <<"0">>) >>

\* the answers of the test sheet: the test question in the wrong case and
\* rightly (with blanks around it), and a question id that does not exist
TestSheet ==
    << Answer("q_t_1", <<"a">>),
       Answer("q_t_1", <<" ", "A", " ">>),
       Answer("q_zz", <<"A">>) >>

\* the answer lists of requests, none longer than MaxAnswers: none; a failing
\* and a passing test; a passing test followed by an unknown question; four
\* review answers all right, four with three right, and the whole sheet
Batches ==
    {b \in { << >>,
             SubSeq(TestSheet, 1, 1),
             SubSeq(TestSheet, 2, 2),
             SubSeq(TestSheet, 2, 3),
             SubSeq(ReviewSheet, 1, 4),
             SubSeq(ReviewSheet, 2, 5),
             ReviewSheet } : Len(b) <= MaxAnswers}

Timestamps == 1..MaxTime

----------------------------------------------------------------------------
(* The database as the handlers see it. *)

Db == [progress |-> progress, test_attempts |-> test_attempts,
       review_attempts |-> review_attempts]

\* db.query(UserUnitProgress).filter(user_id == .., unit_id == ..).first()
QueryProgress(db, user, unit_id) ==
    IF <<user, unit_id>> \in DOMAIN db.progress
    THEN << db.progress[<<user, unit_id>>] >>
    ELSE << >>

Row(status, order, type, completed_at) ==
    [status |-> status, current_step_order |-> order,
     current_step_type |-> type, completed_at |-> completed_at]

\* a plausible slip: the filter on user_id is missing; every row of the unit
\* is written
PutProgress_AnyUser(db, user, unit_id, row) ==
    [db EXCEPT !.progress =
        [k \in DOMAIN db.progress \cup {<<user, unit_id>>} |->
            IF k[2] = unit_id THEN row ELSE db.progress[k]]]

\* the row stored for <<user, unit_id>> becomes row (insert or update)
PutProgress(db, user, unit_id, row) ==
    [db EXCEPT !.progress =
        [k \in DOMAIN db.progress \cup {<<user, unit_id>>} |->
            IF k = <<user, unit_id>> THEN row ELSE db.progress[k]]]

\* a response: HTTP status, the detail of an HTTPException, the data of ok()
Response(op, user, unit_id, arg, code, detail, data) ==
    [op |-> op, user |-> user, unit |-> unit_id, arg |-> arg,
     code |-> code, detail |-> detail, data |-> data]

NoData == << >>

\* what a handler leaves: the database and the response
Outcome(db, r) == [db |-> db, resp |-> r]

\* units.get(unit_id) is missing: 404
UnitMissing(unit_id) == unit_id \notin DOMAIN units

----------------------------------------------------------------------------
(* POST /units/{unit_id}/start *)

\* a plausible slip: start only creates; a row that exists is left as it is
start_unit_OnlyIfAbsent(db, user, unit_id) ==
    IF UnitMissing(unit_id)
    THEN Outcome(db, Response("start", user, unit_id, "", 404, "unit not found", NoData))
    ELSE Outcome(IF QueryProgress(db, user, unit_id) = << >>
                 THEN PutProgress(db, user, unit_id, Row("in_progress", 1, "intro", << >>))
                 ELSE db,
                 Response("start", user, unit_id, "", 200, "",
                          << [status |-> "in_progress", currentStepOrder |-> 1,
                              currentStepType |-> "intro"] >>))

\* a plausible slip: a row that exists keeps its step; only status and
\* completed_at are reset
start_unit_KeepsStep(db, user, unit_id) ==
    IF UnitMissing(unit_id)
    THEN Outcome(db, Response("start", user, unit_id, "", 404, "unit not found", NoData))
    ELSE Outcome(IF QueryProgress(db, user, unit_id) = << >>
                 THEN PutProgress(db, user, unit_id, Row("in_progress", 1, "intro", << >>))
                 ELSE PutProgress(db, user, unit_id,
                                  [QueryProgress(db, user, unit_id)[1] EXCEPT
                                      !.status = "in_progress",
                                      !.completed_at = << >>]),
                 Response("start", user, unit_id, "", 200, "",
                          << [status |-> "in_progress", currentStepOrder |-> 1,
                              currentStepType |-> "intro"] >>))

\* a plausible slip: resetting the unit also deletes the attempts of the pair
start_unit_ClearsAttempts(db, user, unit_id) ==
    IF UnitMissing(unit_id)
    THEN Outcome(db, Response("start", user, unit_id, "", 404, "unit not found", NoData))
    ELSE Outcome([PutProgress(db, user, unit_id, Row("in_progress", 1, "intro", << >>))
                     EXCEPT !.test_attempts =
                                SelectSeq(@, LAMBDA a : ~(a.user_id = user /\ a.unit_id = unit_id)),
                            !.review_attempts =
                                SelectSeq(@, LAMBDA a : ~(a.user_id = user /\ a.unit_id = unit_id))],
                 Response("start", user, unit_id, "", 200, "",
                          << [status |-> "in_progress", currentStepOrder |-> 1,
                              currentStepType |-> "intro"] >>))

start_unit(db, user, unit_id) ==
    IF UnitMissing(unit_id)
    THEN Outcome(db, Response("start", user, unit_id, "", 404, "unit not found", NoData))
    ELSE Outcome(PutProgress(db, user, unit_id, Row("in_progress", 1, "intro", << >>)),
                 Response("start", user, unit_id, "", 200, "",
                          << [status |-> "in_progress", currentStepOrder |-> 1,
                              currentStepType |-> "intro"] >>))

(* GET /units/{unit_id}/progress *)

\* a plausible slip: the progress query creates the row it does not find
unit_progress_Creates(db, user, unit_id) ==
    LET item == QueryProgress(db, user, unit_id) IN
    IF UnitMissing(unit_id)
    THEN Outcome(db, Response("progress", user, unit_id, "", 404, "unit not found", NoData))
    ELSE IF item = << >>
    THEN Outcome(PutProgress(db, user, unit_id, Row("not_started", 1, "intro", << >>)),
                 Response("progress", user, unit_id, "", 200, "",
                     << [status |-> "not_started", currentStepOrder |-> 1,
                         currentStepType |-> "intro", completedAt |-> << >>] >>))
    ELSE Outcome(db, Response("progress", user, unit_id, "", 200, "",
                     << [status |-> item[1].status,
                         currentStepOrder |-> item[1].current_step_order,
                         currentStepType |-> item[1].current_step_type,
                         completedAt |-> item[1].completed_at] >>))

unit_progress(db, user, unit_id) ==
    LET item == QueryProgress(db, user, unit_id) IN
    IF UnitMissing(unit_id)
    THEN Outcome(db, Response("progress", user, unit_id, "", 404, "unit not found", NoData))
    ELSE IF item = << >>
    THEN Outcome(db, Response("progress", user, unit_id, "", 200, "",
                     << [status |-> "not_started", currentStepOrder |-> 1,
                         currentStepType |-> "intro", completedAt |-> << >>] >>))
    ELSE Outcome(db, Response("progress", user, unit_id, "", 200, "",
                     << [status |-> item[1].status,
                         currentStepOrder |-> item[1].current_step_order,
                         currentStepType |-> item[1].current_step_type,
                         completedAt |-> item[1].completed_at] >>))

(* GET /units/{unit_id}/steps/{step_type} *)

\* next((s for s in u["steps"] if s["stepType"] == step_type), None)
FindStep(steps, step_type) ==
    LET hits == {i \in 1..Len(steps) : steps[i].stepType = step_type} IN
    IF hits = {} THEN << >>
    ELSE << steps[CHOOSE i \in hits : \A j \in hits : i <= j] >>

\* a plausible slip in the gate: a step two ahead is let through
StepLocked_TwoAhead(requested_order, item) ==
    requested_order > item.current_step_order + 2

\* if requested_order > item.current_step_order + 1: 409 "step is locked"
StepLocked(requested_order, item) ==
    requested_order > item.current_step_order + 1

\* a plausible slip: every unlocked step is written back, a re-read too
StepAdvances_Always(requested_order, item) ==
    requested_order <= item.current_step_order + 1

\* if requested_order == item.current_step_order + 1: the row is written
StepAdvances(requested_order, item) ==
    requested_order = item.current_step_order + 1

\* a plausible slip: the order is advanced and the type is left behind
AdvancedRow_OrderOnly(item, requested_order, step_type) ==
    [item EXCEPT !.current_step_order = requested_order]

\* item.current_step_order = requested_order; item.current_step_type = step_type
AdvancedRow(item, requested_order, step_type) ==
    [item EXCEPT !.current_step_order = requested_order,
                 !.current_step_type = step_type]

unit_step(db, user, unit_id, step_type) ==
    IF UnitMissing(unit_id)
    THEN Outcome(db, Response("step", user, unit_id, step_type, 404, "unit not found", NoData))
    ELSE
    LET step == FindStep(units[unit_id].steps, step_type)
        item == QueryProgress(db, user, unit_id)
    IN
    IF step = << >>
    THEN Outcome(db, Response("step", user, unit_id, step_type, 404, "step not found", NoData))
    ELSE IF item = << >>
    THEN Outcome(db, Response("step", user, unit_id, step_type, 409, "unit not started", NoData))
    ELSE
    LET requested_order == step[1].stepOrder
        okay == Response("step", user, unit_id, step_type, 200, "",
                         << [stepType |-> step_type, stepId |-> step[1].stepId] >>)
    IN
    IF StepLocked(requested_order, item[1])
    THEN Outcome(db, Response("step", user, unit_id, step_type, 409, "step is locked", NoData))
    ELSE IF StepAdvances(requested_order, item[1])
    THEN Outcome(PutProgress(db, user, unit_id,
                             AdvancedRow(item[1], requested_order, step_type)),
                 okay)
    ELSE Outcome(db, okay)

----------------------------------------------------------------------------
(* Scoring. *)

Whitespace == {" ", "\t", "\n"}

RECURSIVE LStrip(_)
LStrip(s) ==
    IF s # << >> /\ Head(s) \in Whitespace THEN LStrip(Tail(s)) ELSE s

RECURSIVE RStrip(_)
RStrip(s) ==
    IF s # << >> /\ s[Len(s)] \in Whitespace
    THEN RStrip(SubSeq(s, 1, Len(s) - 1))
    ELSE s

\* str(x).strip()
Strip(s) == RStrip(LStrip(s))

\* str(a.answer).strip() == str(q["correctAnswer"]).strip()
AnswerMatches(a, q) == Strip(a.answer) = Strip(q.correctAnswer)

\* _question_or_404 raises for some answer of the list
QuestionMissing(answers) ==
    \E i \in 1..Len(answers) : answers[i].questionId \notin DOMAIN questions

\* a plausible slip: a test question of any unit counts
TestAnswerCounts_AnyUnit(a, unit_id) ==
    LET q == questions[a.questionId] IN
    /\ q.stepType = "test"
    /\ AnswerMatches(a, q)

\* the condition under which submit_test counts answer a
TestAnswerCounts(a, unit_id) ==
    LET q == questions[a.questionId] IN
    /\ q.unitId = unit_id
    /\ q.stepType = "test"
    /\ AnswerMatches(a, q)

\* the loop of submit_test: one is added per answer that counts
TestCorrect(answers, unit_id) ==
    Cardinality({i \in 1..Len(answers) : TestAnswerCounts(answers[i], unit_id)})

\* whether x is among the elements of the list
InList(x, list) == \E i \in 1..Len(list) : list[i] = x

\* the condition under which submit_review counts answer a
ReviewAnswerCounts(a, rs) ==
    LET q == questions[a.questionId] IN
    /\ InList(q.questionId, rs.questionIds)
    /\ AnswerMatches(a, q)

\* the loop of submit_review
ReviewCorrect(answers, rs) ==
    Cardinality({i \in 1..Len(answers) : ReviewAnswerCounts(answers[i], rs)})

\* round((correct / total) * 100, 2), in hundredths of a percent; no quotient
\* with total < 32 lies halfway between two hundredths
ScorePercent(correct, total) == (2 * correct * 10000 + total) \div (2 * total)

\* a plausible slip: the pass threshold is not inclusive
IsPassed_Strict(score) == score > PassThreshold * 100

\* passed = score >= 80
IsPassed(score) == score >= PassThreshold * 100

\* a plausible slip: the threshold is not inclusive
IsCleared_Strict(correct, rs) == correct > rs.requiredCorrectCount

\* cleared = correct >= rs["requiredCorrectCount"]
IsCleared(correct, rs) == correct >= rs.requiredCorrectCount

----------------------------------------------------------------------------
(* POST /units/{unit_id}/tests/submit *)

\* a plausible slip: a failed test sends the learner back to the example
TestTransition_BackToExample(row, passed, now) ==
    IF passed
    THEN Row("completed", 4, "test", << now >>)
    ELSE Row("in_progress", 2, "review", << >>)

\* a plausible slip: a failed test leaves completed_at as it was
TestTransition_KeepsCompletedAt(row, passed, now) ==
    IF passed
    THEN Row("completed", 4, "test", << now >>)
    ELSE Row("in_progress", 3, "review", row.completed_at)

\* a plausible slip: a failed test leaves status as it was
TestTransition_KeepsStatus(row, passed, now) ==
    IF passed
    THEN Row("completed", 4, "test", << now >>)
    ELSE Row(row.status, 3, "review", << >>)

\* the row a scored test leaves
TestTransition(row, passed, now) ==
    IF passed
    THEN Row("completed", 4, "test", << now >>)
    ELSE Row("in_progress", 3, "review", << >>)

\* a plausible slip: the attempt is never added to the session
LogTestAttempt_Forgotten(db, user, unit_id, score, passed) == db

\* db.add(UnitTestAttempt(...))
LogTestAttempt(db, user, unit_id, score, passed) ==
    [db EXCEPT !.test_attempts =
        Append(@, [user_id |-> user, unit_id |-> unit_id,
                   score_percent |-> score, is_passed |-> passed])]

\* a plausible slip: the verdict looks at the attempts recorded before; a
\* unit once passed stays passed
submit_test_StickyPass(db, user, unit_id, answers, now) ==
    LET Err(code, detail) ==
            Outcome(db, Response("test", user, unit_id, "", code, detail, NoData))
        item == QueryProgress(db, user, unit_id)
    IN
    IF UnitMissing(unit_id) THEN Err(404, "unit not found")
    ELSE IF item = << >> THEN Err(409, "unit not started")
    ELSE IF item[1].current_step_type = "review"
    THEN Err(409, "review required before test retry")
    ELSE IF item[1].current_step_order < 3
    THEN Err(409, "practice step must be completed before test")
    ELSE IF Len(answers) = 0 THEN Err(400, "answers required")
    ELSE IF QuestionMissing(answers) THEN Err(404, "question not found")
    ELSE
    LET correct == TestCorrect(answers, unit_id)
        score == ScorePercent(correct, Len(answers))
        passed == \/ IsPassed(score)
                  \/ \E i \in 1..Len(db.test_attempts) :
                        /\ db.test_attempts[i].user_id = user
                        /\ db.test_attempts[i].unit_id = unit_id
                        /\ db.test_attempts[i].is_passed
        logged == LogTestAttempt(db, user, unit_id, score, passed)
    IN
    Outcome(PutProgress(logged, user, unit_id, TestTransition(item[1], passed, now)),
            Response("test", user, unit_id, "", 200, "",
                     << [scorePercent |-> score, passThreshold |-> PassThreshold,
                         isPassed |-> passed,
                         nextAction |-> IF passed THEN "passed" ELSE "go_review"] >>))

\* a plausible slip: an answer to an unknown question is skipped, not refused
submit_test_SkipsUnknown(db, user, unit_id, answers, now) ==
    LET Err(code, detail) ==
            Outcome(db, Response("test", user, unit_id, "", code, detail, NoData))
        item == QueryProgress(db, user, unit_id)
        known == SelectSeq(answers, LAMBDA a : a.questionId \in DOMAIN questions)
    IN
    IF UnitMissing(unit_id) THEN Err(404, "unit not found")
    ELSE IF item = << >> THEN Err(409, "unit not started")
    ELSE IF item[1].current_step_type = "review"
    THEN Err(409, "review required before test retry")
    ELSE IF item[1].current_step_order < 3
    THEN Err(409, "practice step must be completed before test")
    ELSE IF Len(answers) = 0 THEN Err(400, "answers required")
    ELSE
    LET correct == TestCorrect(known, unit_id)
        score == ScorePercent(correct, Len(answers))
        passed == IsPassed(score)
        logged == LogTestAttempt(db, user, unit_id, score, passed)
    IN
    Outcome(PutProgress(logged, user, unit_id, TestTransition(item[1], passed, now)),
            Response("test", user, unit_id, "", 200, "",
                     << [scorePercent |-> score, passThreshold |-> PassThreshold,
                         isPassed |-> passed,
                         nextAction |-> IF passed THEN "passed" ELSE "go_review"] >>))

\* a plausible slip: the answer list is validated before the progress row
submit_test_AnswersFirst(db, user, unit_id, answers, now) ==
    LET Err(code, detail) ==
            Outcome(db, Response("test", user, unit_id, "", code, detail, NoData))
        item == QueryProgress(db, user, unit_id)
    IN
    IF UnitMissing(unit_id) THEN Err(404, "unit not found")
    ELSE IF Len(answers) = 0 THEN Err(400, "answers required")
    ELSE IF QuestionMissing(answers) THEN Err(404, "question not found")
    ELSE IF item = << >> THEN Err(409, "unit not started")
    ELSE IF item[1].current_step_type = "review"
    THEN Err(409, "review required before test retry")
    ELSE IF item[1].current_step_order < 3
    THEN Err(409, "practice step must be completed before test")
    ELSE
    LET correct == TestCorrect(answers, unit_id)
        score == ScorePercent(correct, Len(answers))
        passed == IsPassed(score)
        logged == LogTestAttempt(db, user, unit_id, score, passed)
    IN
    Outcome(PutProgress(logged, user, unit_id, TestTransition(item[1], passed, now)),
            Response("test", user, unit_id, "", 200, "",
                     << [scorePercent |-> score, passThreshold |-> PassThreshold,
                         isPassed |-> passed,
                         nextAction |-> IF passed THEN "passed" ELSE "go_review"] >>))

submit_test(db, user, unit_id, answers, now) ==
    LET Err(code, detail) ==
            Outcome(db, Response("test", user, unit_id, "", code, detail, NoData))
        item == QueryProgress(db, user, unit_id)
    IN
    IF UnitMissing(unit_id) THEN Err(404, "unit not found")
    ELSE IF item = << >> THEN Err(409, "unit not started")
    ELSE IF item[1].current_step_type = "review"
    THEN Err(409, "review required before test retry")
    ELSE IF item[1].current_step_order < 3
    THEN Err(409, "practice step must be completed before test")
    ELSE IF Len(answers) = 0 THEN Err(400, "answers required")
    ELSE IF QuestionMissing(answers) THEN Err(404, "question not found")
    ELSE
    LET correct == TestCorrect(answers, unit_id)
        score == ScorePercent(correct, Len(answers))
        passed == IsPassed(score)
        logged == LogTestAttempt(db, user, unit_id, score, passed)
    IN
    Outcome(PutProgress(logged, user, unit_id, TestTransition(item[1], passed, now)),
            Response("test", user, unit_id, "", 200, "",
                     << [scorePercent |-> score, passThreshold |-> PassThreshold,
                         isPassed |-> passed,
                         nextAction |-> IF passed THEN "passed" ELSE "go_review"] >>))

(* POST /units/{unit_id}/review-set/submit *)

\* a plausible slip: a cleared review unlocks order 4 and stays in review
ReviewTransition_StaysInReview(row, cleared) ==
    IF cleared
    THEN [row EXCEPT !.current_step_order = 4]
    ELSE row

\* a plausible slip: a cleared review names the test step and leaves the order
ReviewTransition_TypeOnly(row, cleared) ==
    IF cleared
    THEN [row EXCEPT !.current_step_type = "test"]
    ELSE row

\* the row a scored review leaves
ReviewTransition(row, cleared) ==
    IF cleared
    THEN [row EXCEPT !.current_step_order = 4, !.current_step_type = "test"]
    ELSE row

\* db.add(ReviewAttempt(...))
LogReviewAttempt(db, user, unit_id, reviewSetId, correct, cleared) ==
    [db EXCEPT !.review_attempts =
        Append(@, [user_id |-> user, unit_id |-> unit_id,
                   review_set_id |-> reviewSetId,
                   correct_count |-> correct, is_cleared |-> cleared])]

\* a plausible slip: the review set is not checked to belong to the unit
submit_review_AnyUnit(db, user, unit_id, reviewSetId, answers) ==
    LET Err(code, detail) ==
            Outcome(db, Response("review", user, unit_id, reviewSetId, code, detail, NoData))
        item == QueryProgress(db, user, unit_id)
    IN
    IF UnitMissing(unit_id) THEN Err(404, "unit not found")
    ELSE IF item = << >> THEN Err(409, "unit not started")
    ELSE IF item[1].current_step_type # "review"
    THEN Err(409, "review step is not active")
    ELSE IF reviewSetId \notin DOMAIN review_sets
    THEN Err(404, "review set not found")
    ELSE IF QuestionMissing(answers) THEN Err(404, "question not found")
    ELSE
    LET rs == review_sets[reviewSetId]
        correct == ReviewCorrect(answers, rs)
        cleared == IsCleared(correct, rs)
        logged == LogReviewAttempt(db, user, unit_id, reviewSetId, correct, cleared)
    IN
    Outcome(PutProgress(logged, user, unit_id, ReviewTransition(item[1], cleared)),
            Response("review", user, unit_id, reviewSetId, 200, "",
                     << [correctCount |-> correct,
                         questionCount |-> Len(rs.questionIds),
                         requiredCorrectCount |-> rs.requiredCorrectCount,
                         isCleared |-> cleared, canRetryTest |-> cleared] >>))

submit_review(db, user, unit_id, reviewSetId, answers) ==
    LET Err(code, detail) ==
            Outcome(db, Response("review", user, unit_id, reviewSetId, code, detail, NoData))
        item == QueryProgress(db, user, unit_id)
    IN
    IF UnitMissing(unit_id) THEN Err(404, "unit not found")
    ELSE IF item = << >> THEN Err(409, "unit not started")
    ELSE IF item[1].current_step_type # "review"
    THEN Err(409, "review step is not active")
    ELSE IF reviewSetId \notin DOMAIN review_sets
            \/ review_sets[reviewSetId].unitId # unit_id
    THEN Err(404, "review set not found")
    ELSE IF QuestionMissing(answers) THEN Err(404, "question not found")
    ELSE
    LET rs == review_sets[reviewSetId]
        correct == ReviewCorrect(answers, rs)
        cleared == IsCleared(correct, rs)
        logged == LogReviewAttempt(db, user, unit_id, reviewSetId, correct, cleared)
    IN
    Outcome(PutProgress(logged, user, unit_id, ReviewTransition(item[1], cleared)),
            Response("review", user, unit_id, reviewSetId, 200, "",
                     << [correctCount |-> correct,
                         questionCount |-> Len(rs.questionIds),
                         requiredCorrectCount |-> rs.requiredCorrectCount,
                         isCleared |-> cleared, canRetryTest |-> cleared] >>))

----------------------------------------------------------------------------
(* The history variable: what an outcome does to review_pending. *)

Pending(out) ==
    LET r == out.resp
        k == <<r.user, r.unit>>
    IN
    IF r.code # 200 THEN review_pending
    ELSE IF r.op = "start" THEN review_pending \ {k}
    ELSE IF r.op = "test" /\ ~r.data[1].isPassed THEN review_pending \cup {k}
    ELSE IF r.op = "review" /\ r.data[1].isCleared THEN review_pending \ {k}
    ELSE review_pending

\* the state after a handler has returned
Served(out) ==
    /\ progress' = out.db.progress
    /\ test_attempts' = out.db.test_attempts
    /\ review_attempts' = out.db.review_attempts
    /\ resp' = out.resp
    /\ review_pending' = Pending(out)
    /\ UNCHANGED <<catalog, user_badges, inflight>>

----------------------------------------------------------------------------
(* The requests. *)

StartUnit ==
    \E user \in users, unit_id \in UnitIds :
        Served(start_unit(Db, user, unit_id))

UnitProgress ==
    \E user \in users, unit_id \in UnitIds :
        Served(unit_progress(Db, user, unit_id))

UnitStep ==
    \E user \in users, unit_id \in UnitIds, step_type \in StepTypes :
        Served(unit_step(Db, user, unit_id, step_type))

\* the attempt tables stay within their bounds
Bounded(out) ==
    /\ Len(out.db.test_attempts) <= MaxTestAttempts
    /\ Len(out.db.review_attempts) <= MaxReviewAttempts

SubmitTest ==
    \E user \in users, unit_id \in UnitIds, answers \in Batches, now \in Timestamps :
        LET out == submit_test(Db, user, unit_id, answers, now) IN
        Bounded(out) /\ Served(out)

SubmitReview ==
    \E user \in users, unit_id \in UnitIds, reviewSetId \in ReviewSetIds,
       answers \in Batches :
        LET out == submit_review(Db, user, unit_id, reviewSetId, answers) IN
        Bounded(out) /\ Served(out)

Init ==
    /\ users = {"u1"}
    /\ units = SeedUnits
    /\ questions = SeedQuestions
    /\ review_sets = SeedReviewSets
    /\ progress = << >>
    /\ test_attempts = << >>
    /\ review_attempts = << >>
    /\ user_badges = << >>
    /\ resp = Response("none", "", "", "", 200, "", NoData)
    /\ review_pending = {}
    /\ sessions = [i \in {1, 2} |-> [pc |-> "idle"]]
    /\ episode = [base |-> [progress |-> << >>, test_attempts |-> << >>,
                            review_attempts |-> << >>],
                  reqs |-> << >>, done |-> 0]

Next ==
    \/ StartUnit
    \/ UnitProgress
    \/ UnitStep
    \/ SubmitTest
    \/ SubmitReview

Spec == Init /\ [][Next]_vars

----------------------------------------------------------------------------
(* What the claims speak of. *)

\* the pair a response belongs to
Key(r) == <<r.user, r.unit>>

\* the fixed order of the four step types
FixedOrder == [intro |-> 1, example |-> 2, practice |-> 3, test |-> 4]

\* the last response is that of operation op, for a pair that has a row
ServedRow(op) == resp.op = op /\ Key(resp) \in DOMAIN progress

\* the attempt tables are as they were
AttemptsUnchanged ==
    /\ test_attempts' = test_attempts
    /\ review_attempts' = review_attempts

\* the preconditions of submitTest hold for these inputs
TestPreconditions(user, unit_id, answers) ==
    /\ <<user, unit_id>> \in DOMAIN progress
    /\ progress[<<user, unit_id>>].current_step_type # "review"
    /\ progress[<<user, unit_id>>].current_step_order >= 3
    /\ Len(answers) > 0
    /\ \A i \in 1..Len(answers) : answers[i].questionId \in DOMAIN questions

\* the preconditions of submitReview hold for these inputs
ReviewPreconditions(user, unit_id, reviewSetId, answers) ==
    /\ <<user, unit_id>> \in DOMAIN progress
    /\ progress[<<user, unit_id>>].current_step_type = "review"
    /\ reviewSetId \in DOMAIN review_sets
    /\ review_sets[reviewSetId].unitId = unit_id
    /\ \A i \in 1..Len(answers) : answers[i].questionId \in DOMAIN questions

\* table t with every row but that of k as in progress
OthersUnchanged(t, k) ==
    /\ DOMAIN t = DOMAIN progress
    /\ \A j \in DOMAIN progress : j # k => t[j] = progress[j]

----------------------------------------------------------------------------
(* C1: after a submitTest scored as failed, every later submitTest for the
   same (user, unit) yields Conflict (409) and records no attempt until a
   submitReview for the pair has been cleared or start has reset the unit,
   whatever other operations happen in between.  review_pending holds the
   pairs in that span.  The claim as stated; the code breaks it: accessing
   the test step from review rewrites current_step_type to "test". *)
C1_RetryLockedUntilCleared ==
    [][ (resp'.op = "test" /\ Key(resp') \in review_pending)
            => (resp'.code = 409 /\ AttemptsUnchanged) ]_vars

(* C2: in every reachable state of a started (user, unit), accessStep for a
   step whose fixed order is greater than currentStepOrder + 1 yields
   Conflict (409, "step is locked") and leaves the progress record and the
   attempts unchanged. *)
C2_LockedStepIsConflict ==
    [][ \A k \in DOMAIN progress :
            ( /\ resp'.op = "step"
              /\ Key(resp') = k
              /\ FixedOrder[resp'.arg] > progress[k].current_step_order + 1 )
            => ( /\ resp'.code = 409
                 /\ resp'.detail = "step is locked"
                 /\ progress' = progress
                 /\ AttemptsUnchanged ) ]_vars

\* C2's case: a locked step is refused after the unit has been through a
\* test and a restart
C2_Witness ==
    /\ ServedRow("step")
    /\ resp.code = 409
    /\ resp.detail = "step is locked"
    /\ FixedOrder[resp.arg] > progress[Key(resp)].current_step_order + 1
    /\ test_attempts # << >>

(* C3, as stated: across every operation currentStepOrder never decreases;
   the only exception is a failed submitTest, which sets currentStepType to
   review and leaves currentStepOrder at 3. *)
C3_OrderDecreasesOnlyByFailedTest ==
    [][ \A k \in DOMAIN progress :
            \/ progress'[k].current_step_order >= progress[k].current_step_order
            \/ /\ resp'.op = "test" /\ Key(resp') = k /\ resp'.code = 200
               /\ ~resp'.data[1].isPassed
               /\ progress'[k].current_step_type = "review"
               /\ progress'[k].current_step_order = 3 ]_vars

(* C3, amended: currentStepOrder never decreases except by start, which
   resets it to 1 with currentStepType intro, and by a failed submitTest,
   which sets currentStepType to review and currentStepOrder to 3; no row
   is ever removed. *)
C3_OrderDecreasesOnlyByStartOrFailedTest ==
    [][ /\ DOMAIN progress \subseteq DOMAIN progress'
        /\ \A k \in DOMAIN progress :
            \/ progress'[k].current_step_order >= progress[k].current_step_order
            \/ /\ resp'.op = "start" /\ Key(resp') = k /\ resp'.code = 200
               /\ progress'[k].current_step_type = "intro"
               /\ progress'[k].current_step_order = 1
            \/ /\ resp'.op = "test" /\ Key(resp') = k /\ resp'.code = 200
               /\ ~resp'.data[1].isPassed
               /\ progress'[k].current_step_type = "review"
               /\ progress'[k].current_step_order = 3 ]_vars

\* C3's case: a start has put a unit that had reached its test back to 1
C3_Witness ==
    /\ ServedRow("start")
    /\ resp.code = 200
    /\ progress[Key(resp)].current_step_order = 1
    /\ \E i \in 1..Len(test_attempts) :
          /\ test_attempts[i].user_id = resp.user
          /\ test_attempts[i].unit_id = resp.unit

(* C4: in every reachable state, a submitTest whose preconditions hold
   (row exists, currentStepType not review, currentStepOrder >= 3, answers
   non-empty, all question ids known) is accepted and applies exactly one
   of two transitions chosen by the verdict: passed leaves (completed, 4,
   test) with completedAt set and nextAction = passed; failed leaves
   (in_progress, 3, review) with completedAt cleared and nextAction =
   go_review.  Other rows stay as they are. *)
C4_TestTransition ==
    \A user \in users, unit_id \in UnitIds, answers \in Batches, now \in Timestamps :
        TestPreconditions(user, unit_id, answers) =>
            LET out == submit_test(Db, user, unit_id, answers, now)
                d   == out.resp.data[1]
                row == out.db.progress[<<user, unit_id>>]
            IN  /\ out.resp.code = 200
                /\ OthersUnchanged(out.db.progress, <<user, unit_id>>)
                /\ \/ /\ d.isPassed
                      /\ row = Row("completed", 4, "test", << now >>)
                      /\ d.nextAction = "passed"
                   \/ /\ ~d.isPassed
                      /\ row = Row("in_progress", 3, "review", << >>)
                      /\ d.nextAction = "go_review"

\* C4's case: a failed test has taken a completed unit back to review
C4_Witness ==
    /\ ServedRow("test")
    /\ resp.code = 200
    /\ ~resp.data[1].isPassed
    /\ resp.data[1].nextAction = "go_review"
    /\ progress[Key(resp)] = Row("in_progress", 3, "review", << >>)
    /\ Len(test_attempts) = 2
    /\ test_attempts[1].is_passed

(* C6: accessStep for a step whose fixed order is <= currentStepOrder
   succeeds and leaves status, currentStepOrder, currentStepType and
   completedAt (the whole progress table) and the attempts unchanged, in
   every reachable state. *)
C6_RereadChangesNothing ==
    [][ \A k \in DOMAIN progress :
            ( /\ resp'.op = "step"
              /\ Key(resp') = k
              /\ FixedOrder[resp'.arg] <= progress[k].current_step_order )
            => ( /\ resp'.code = 200
                 /\ progress' = progress
                 /\ AttemptsUnchanged ) ]_vars

\* C6's case: an earlier step has been read again while in review
C6_Witness ==
    /\ ServedRow("step")
    /\ resp.code = 200
    /\ FixedOrder[resp.arg] < progress[Key(resp)].current_step_order
    /\ progress[Key(resp)].current_step_type = "review"

(* C7: accessStep for the step whose fixed order equals currentStepOrder + 1
   succeeds, sets currentStepOrder to that order and currentStepType to the
   requested type and changes nothing else; so the steps read in order after
   start end at order 4. *)
C7_NextStepAdvances ==
    [][ \A k \in DOMAIN progress :
            ( /\ resp'.op = "step"
              /\ Key(resp') = k
              /\ FixedOrder[resp'.arg] = progress[k].current_step_order + 1 )
            => ( /\ resp'.code = 200
                 /\ progress' =
                      [progress EXCEPT ![k] =
                          [@ EXCEPT !.current_step_order = FixedOrder[resp'.arg],
                                    !.current_step_type = resp'.arg]]
                 /\ AttemptsUnchanged ) ]_vars

\* C7's case: the test step has been reached by reading the steps in order,
\* no test or review having been submitted
C7_Witness ==
    /\ ServedRow("step")
    /\ resp.code = 200
    /\ resp.arg = "test"
    /\ progress[Key(resp)] = Row("in_progress", 4, "test", << >>)
    /\ test_attempts = << >>
    /\ review_attempts = << >>

(* C8: in every reachable state, a submitReview whose preconditions hold is
   accepted and is cleared exactly when correctCount >= requiredCorrectCount
   of the named review set; cleared, it sets currentStepType to test and
   currentStepOrder to 4, leaves status (not completed) and completedAt as
   they were and returns canRetryTest = true; not cleared, it leaves the
   progress table unchanged. *)
C8_ReviewTransition ==
    \A user \in users, unit_id \in UnitIds, reviewSetId \in ReviewSetIds,
       answers \in Batches :
        ReviewPreconditions(user, unit_id, reviewSetId, answers) =>
            LET out == submit_review(Db, user, unit_id, reviewSetId, answers)
                d   == out.resp.data[1]
                k   == <<user, unit_id>>
            IN  /\ out.resp.code = 200
                /\ d.requiredCorrectCount = review_sets[reviewSetId].requiredCorrectCount
                /\ d.isCleared <=> (d.correctCount >= d.requiredCorrectCount)
                /\ d.canRetryTest = d.isCleared
                /\ d.isCleared =>
                      /\ out.db.progress =
                            [progress EXCEPT ![k] =
                                [@ EXCEPT !.current_step_order = 4,
                                          !.current_step_type = "test"]]
                      /\ out.db.progress[k].status # "completed"
                /\ ~d.isCleared => out.db.progress = progress

\* C8's case: a review has been cleared with exactly the required count
C8_Witness ==
    /\ ServedRow("review")
    /\ resp.code = 200
    /\ resp.data[1].isCleared
    /\ resp.data[1].canRetryTest
    /\ resp.data[1].correctCount = resp.data[1].requiredCorrectCount
    /\ progress[Key(resp)] = Row("in_progress", 4, "test", << >>)

(* C9: the submitTest that follows a cleared submitReview (which follows a
   failed submitTest) for the same (user, unit) is not refused with
   Conflict, and if it passes the state becomes (completed, 4, test). *)
C9_RetryAfterClearedReview ==
    [][ ( /\ resp.op = "review" /\ resp.code = 200 /\ resp.data[1].isCleared
          /\ resp'.op = "test" /\ Key(resp') = Key(resp) )
        => ( /\ resp'.code # 409
             /\ (resp'.code = 200 /\ resp'.data[1].isPassed) =>
                    /\ progress'[Key(resp)].status = "completed"
                    /\ progress'[Key(resp)].current_step_order = 4
                    /\ progress'[Key(resp)].current_step_type = "test" ) ]_vars

\* C9's case: a test has been passed after a failed test and a cleared review
C9_Witness ==
    /\ ServedRow("test")
    /\ resp.code = 200
    /\ resp.data[1].isPassed
    /\ progress[Key(resp)].status = "completed"
    /\ Len(test_attempts) = 2
    /\ ~test_attempts[1].is_passed
    /\ Len(review_attempts) = 1
    /\ review_attempts[1].is_cleared

(* C10: every start, accessStep, submitTest or submitReview that ends in an
   error (404, 409 or 400) leaves the progress table and both attempt tables
   exactly as they were; every submitTest or submitReview that succeeds adds
   exactly one row, to its own attempt table, carrying the verdict it
   returns. *)
C10_NoPartialApplication ==
    [][ /\ resp'.code # 200 =>
              (progress' = progress /\ AttemptsUnchanged)
        /\ (resp'.op = "test" /\ resp'.code = 200) =>
              /\ test_attempts' =
                    Append(test_attempts,
                           [user_id |-> resp'.user, unit_id |-> resp'.unit,
                            score_percent |-> resp'.data[1].scorePercent,
                            is_passed |-> resp'.data[1].isPassed])
              /\ review_attempts' = review_attempts
              /\ progress'[Key(resp')].current_step_type =
                    (IF resp'.data[1].isPassed THEN "test" ELSE "review")
        /\ (resp'.op = "review" /\ resp'.code = 200) =>
              /\ review_attempts' =
                    Append(review_attempts,
                           [user_id |-> resp'.user, unit_id |-> resp'.unit,
                            review_set_id |-> resp'.arg,
                            correct_count |-> resp'.data[1].correctCount,
                            is_cleared |-> resp'.data[1].isCleared])
              /\ test_attempts' = test_attempts
              /\ progress'[Key(resp')].current_step_type =
                    (IF resp'.data[1].isCleared THEN "test" ELSE "review")
        /\ resp'.op \in {"start", "progress", "step"} => AttemptsUnchanged ]_vars

\* C10's case: a test batch naming an unknown question has been refused
\* whole, after an attempt had been recorded
C10_Witness ==
    /\ resp.op = "test"
    /\ resp.code = 404
    /\ resp.detail = "question not found"
    /\ test_attempts # << >>

(* C11: in every reachable state (no row, in_progress at any step, review,
   completed), start on a known unit succeeds and leaves the row
   (in_progress, 1, intro) with completedAt cleared, every other row and the
   attempts as they were; start applied again to the result gives the same
   database; start on an unknown unit yields NotFound (404) and leaves the
   database as it was, so no row is created. *)
C11_StartResets ==
    \A user \in users, unit_id \in UnitIds :
        LET out   == start_unit(Db, user, unit_id)
            again == start_unit(out.db, user, unit_id)
            k     == <<user, unit_id>>
        IN  IF unit_id \in DOMAIN units
            THEN /\ out.resp.code = 200
                 /\ DOMAIN out.db.progress = DOMAIN progress \cup {k}
                 /\ out.db.progress[k] = Row("in_progress", 1, "intro", << >>)
                 /\ \A j \in DOMAIN progress : j # k => out.db.progress[j] = progress[j]
                 /\ out.db.test_attempts = test_attempts
                 /\ out.db.review_attempts = review_attempts
                 /\ again.resp = out.resp
                 /\ again.db = out.db
            ELSE /\ out.resp.code = 404
                 /\ out.db = Db
                 /\ k \notin DOMAIN out.db.progress

\* C11's case: start has reset a unit whose last test was passed (a completed
\* unit), and the row is back at (in_progress, 1, intro)
C11_Witness ==
    /\ ServedRow("start")
    /\ resp.code = 200
    /\ progress[Key(resp)] = Row("in_progress", 1, "intro", << >>)
    /\ test_attempts # << >>
    /\ test_attempts[Len(test_attempts)].is_passed

(* C12: on a known unit, submitTest reports the first of its preconditions
   that fails, in this order: no progress row gives Conflict (409); else
   currentStepType = review gives Conflict; else currentStepOrder < 3 gives
   Conflict; else an empty answer list gives BadRequest (400); else an
   unknown question id gives NotFound (404); else the batch is accepted.  So
   an empty or unknown-id batch sent in review or before practice yields
   Conflict.  Holds in every reachable state, for every batch. *)
C12_TestCheckOrder ==
    \A user \in users, unit_id \in DOMAIN units, answers \in Batches,
       now \in Timestamps :
        LET r == submit_test(Db, user, unit_id, answers, now).resp
            k == <<user, unit_id>>
            unknown == \E i \in 1..Len(answers) :
                          answers[i].questionId \notin DOMAIN questions
        IN  IF k \notin DOMAIN progress
            THEN r.code = 409 /\ r.detail = "unit not started"
            ELSE IF progress[k].current_step_type = "review"
            THEN r.code = 409 /\ r.detail = "review required before test retry"
            ELSE IF progress[k].current_step_order < 3
            THEN r.code = 409 /\ r.detail = "practice step must be completed before test"
            ELSE IF answers = << >>
            THEN r.code = 400
            ELSE IF unknown
            THEN r.code = 404 /\ r.detail = "question not found"
            ELSE r.code = 200

\* C12's case: a submitTest has been refused with Conflict while the row is
\* in review, where the empty batch and the unknown-id batch are refused so too
C12_Witness ==
    /\ ServedRow("test")
    /\ resp.code = 409
    /\ resp.detail = "review required before test retry"
    /\ progress[Key(resp)].current_step_type = "review"
    /\ submit_test(Db, resp.user, resp.unit, << >>, 1).resp.code = 409
    /\ submit_test(Db, resp.user, resp.unit, SubSeq(TestSheet, 2, 3), 1).resp.code = 409

(* C16: a progress row for (user, unit) comes into being only by a
   successful start for that pair: no other request adds a row.  For a pair
   of a known unit that has no row, the progress query answers 200 with the
   virtual default (not_started, 1, intro, completedAt null), while
   accessStep (for each of the four steps), submitTest and submitReview
   yield Conflict (409); none of them changes the progress table. *)
C16_RowOnlyByStart ==
    [][ /\ DOMAIN progress' # DOMAIN progress =>
              /\ resp'.op = "start"
              /\ resp'.code = 200
              /\ DOMAIN progress' = DOMAIN progress \cup {Key(resp')}
        /\ ( /\ Key(resp') \notin DOMAIN progress
             /\ resp'.unit \in DOMAIN units
             /\ resp'.op \in {"progress", "step", "test", "review"} ) =>
              /\ progress' = progress
              /\ AttemptsUnchanged
              /\ IF resp'.op = "progress"
                 THEN /\ resp'.code = 200
                      /\ resp'.data = << [status |-> "not_started",
                                          currentStepOrder |-> 1,
                                          currentStepType |-> "intro",
                                          completedAt |-> << >>] >>
                 ELSE resp'.code = 409 ]_vars

\* C16's case: the progress of a pair without a row has been queried; the
\* virtual default was returned and there is still no row
C16_Witness ==
    /\ resp.op = "progress"
    /\ resp.unit \in DOMAIN units
    /\ resp.code = 200
    /\ resp.data[1].status = "not_started"
    /\ Key(resp) \notin DOMAIN progress

\* the database holding the progress row of pair k as it is, and nothing of
\* what happened before: no other row, no attempt
BareDb(k) ==
    [progress |-> [j \in DOMAIN progress \cap {k} |-> progress[j]],
     test_attempts |-> << >>,
     review_attempts |-> << >>]

\* the two rows are in the same progress state; completed_at is set in both
\* or in neither
SameProgressState(a, b) ==
    /\ a.status = b.status
    /\ a.current_step_order = b.current_step_order
    /\ a.current_step_type = b.current_step_type
    /\ (a.completed_at = << >>) <=> (b.completed_at = << >>)

(* C19: scoring is deterministic.  A submitTest (or submitReview) with given
   answers against the catalog, made from a given progress state, returns the
   same response (scorePercent or correctCount, verdict, or the same error)
   and leaves the same next progress state and the same new attempt whenever
   it is made: in the reachable state, with whatever attempts were recorded
   before, or with none recorded and at a later time. *)
C19_ScoringIsDeterministic ==
    \A user \in users, unit_id \in UnitIds, answers \in Batches :
        LET k == <<user, unit_id>> IN
        /\ \A now \in Timestamps :
              LET one == submit_test(Db, user, unit_id, answers, now)
                  two == submit_test(BareDb(k), user, unit_id, answers, now + 1)
              IN  /\ one.resp = two.resp
                  /\ one.resp.code = 200 =>
                        /\ SameProgressState(one.db.progress[k], two.db.progress[k])
                        /\ one.db.test_attempts = test_attempts \o two.db.test_attempts
                        /\ Len(two.db.test_attempts) = 1
        /\ \A reviewSetId \in ReviewSetIds :
              LET one == submit_review(Db, user, unit_id, reviewSetId, answers)
                  two == submit_review(BareDb(k), user, unit_id, reviewSetId, answers)
              IN  /\ one.resp = two.resp
                  /\ one.resp.code = 200 =>
                        /\ one.db.progress[k] = two.db.progress[k]
                        /\ one.db.review_attempts = review_attempts \o two.db.review_attempts
                        /\ Len(two.db.review_attempts) = 1

\* C19's case: the same test has been scored twice, first before and then
\* after the unit was completed, with the same score and verdict
C19_Witness ==
    /\ ServedRow("test")
    /\ resp.code = 200
    /\ Len(test_attempts) = 2
    /\ test_attempts[1] = test_attempts[2]
    /\ test_attempts[2].score_percent = resp.data[1].scorePercent
    /\ test_attempts[2].is_passed

----------------------------------------------------------------------------
(* Requests served at the same time.  A handler loads the progress row of
   its session at its query, works on what it loaded, and writes at
   db.commit(): an object added to the session is inserted, an object it
   loaded is updated in the columns whose value it changed, and the attempt
   it added is inserted.  No handler locks the row or checks a version, so
   between the query of one request and its commit another request may
   commit.  Commits are atomic and a query sees what has been committed. *)

Slots == {1, 2}

Idle == [pc |-> "idle"]

Request(op, user, unit_id, arg, answers, now) ==
    [op |-> op, user |-> user, unit |-> unit_id, arg |-> arg,
     answers |-> answers, now |-> now]

\* the handler of a request, on database db
Handle(db, req) ==
    CASE req.op = "start"  -> start_unit(db, req.user, req.unit)
      [] req.op = "step"   -> unit_step(db, req.user, req.unit, req.arg)
      [] req.op = "test"   -> submit_test(db, req.user, req.unit, req.answers, req.now)
      [] req.op = "review" -> submit_review(db, req.user, req.unit, req.arg, req.answers)

\* the requests made at the same time, all of user u1 on unit_1: start, the
\* four steps, a passing and a failing test, a cleared and an uncleared review
ConcurrentRequests ==
    {Request("start", "u1", "unit_1", "", << >>, 1)}
    \cup {Request("step", "u1", "unit_1", t, << >>, 1) : t \in StepTypes}
    \cup {Request("test", "u1", "unit_1", "", b, now) :
            b \in {SubSeq(TestSheet, 1, 1), SubSeq(TestSheet, 2, 2)},
            now \in Timestamps}
    \cup {Request("review", "u1", "unit_1", "rs_1", b, 1) :
            b \in {SubSeq(ReviewSheet, 1, 4), SubSeq(ReviewSheet, 2, 4)}}

Active == {i \in Slots : sessions[i].pc # "idle"}

\* the database as a session sees it: the row it loaded, the rest as stored
SessionView(db, req, item) ==
    LET k == <<req.user, req.unit>> IN
    [db EXCEPT !.progress =
        [j \in (DOMAIN db.progress \ {k}) \cup (IF item = << >> THEN {} ELSE {k}) |->
            IF j = k THEN item[1] ELSE db.progress[j]]]

\* UPDATE of a loaded row: the columns whose value the handler changed
UpdatedRow(stored, loaded, new) ==
    Row(IF new.status # loaded.status THEN new.status ELSE stored.status,
        IF new.current_step_order # loaded.current_step_order
            THEN new.current_step_order ELSE stored.current_step_order,
        IF new.current_step_type # loaded.current_step_type
            THEN new.current_step_type ELSE stored.current_step_type,
        IF new.completed_at # loaded.completed_at
            THEN new.completed_at ELSE stored.completed_at)

\* db.commit() of a session that loaded item and whose handler left out
Commit(db, req, item, out) ==
    LET k == <<req.user, req.unit>> IN
    IF out.resp.code # 200 THEN Outcome(db, out.resp)
    ELSE IF item = << >>
    THEN \* INSERT of the row added by start_unit; uq_user_unit forbids a second
         IF k \in DOMAIN db.progress
         THEN Outcome(db, Response(req.op, req.user, req.unit, req.arg, 500,
                                   "IntegrityError", NoData))
         ELSE Outcome(out.db, out.resp)
    ELSE Outcome([out.db EXCEPT !.progress[k] =
                      UpdatedRow(db.progress[k], item[1], out.db.progress[k])],
                 out.resp)

\* a request arrives and its handler runs its query
Begin(i) ==
    \E req \in ConcurrentRequests :
        /\ sessions[i].pc = "idle"
        /\ Len(test_attempts) + Len(review_attempts) + Cardinality(Active)
              < MaxTestAttempts + MaxReviewAttempts
        /\ \/ /\ Active = {}
              /\ episode' = [base |-> Db, reqs |-> << req >>, done |-> 0]
           \/ /\ Active # {}
              /\ Len(episode.reqs) = 1
              /\ episode.done = 0
              /\ episode' = [episode EXCEPT !.reqs = Append(@, req)]
        /\ sessions' = [sessions EXCEPT ![i] =
              [pc |-> "loaded", req |-> req,
               item |-> QueryProgress(Db, req.user, req.unit)]]
        /\ UNCHANGED <<catalog, progress, test_attempts, review_attempts,
                       user_badges, resp, review_pending>>

\* the handler runs on what it loaded, commits and answers
Finish(i) ==
    /\ sessions[i].pc = "loaded"
    /\ LET req == sessions[i].req
           item == sessions[i].item
           out == Commit(Db, req, item, Handle(SessionView(Db, req, item), req))
       IN  /\ progress' = out.db.progress
           /\ test_attempts' = out.db.test_attempts
           /\ review_attempts' = out.db.review_attempts
           /\ resp' = out.resp
    /\ sessions' = [sessions EXCEPT ![i] = Idle]
    /\ episode' = [episode EXCEPT !.done = @ + 1]
    /\ UNCHANGED <<catalog, user_badges, review_pending>>

NextConcurrent == \E i \in Slots : Begin(i) \/ Finish(i)

SpecConcurrent == Init /\ [][NextConcurrent]_vars

\* the database after ra and then rb, one after the other, from base
Serial(base, ra, rb) == Handle(Handle(base, ra).db, rb).db

\* how often x occurs in list
Count(list, x) == Cardinality({i \in 1..Len(list) : list[i] = x})

\* the two lists hold the same rows, each as often
SameRows(a, b) ==
    /\ Len(a) = Len(b)
    /\ \A i \in 1..Len(a) : Count(a, a[i]) = Count(b, a[i])

\* the two databases hold the same progress table and the same attempts
SameDb(a, b) ==
    /\ a.progress = b.progress
    /\ SameRows(a.test_attempts, b.test_attempts)
    /\ SameRows(a.review_attempts, b.review_attempts)

(* C5: when two requests on the same (user, unit) have been served at the
   same time, the progress table and the recorded attempts are those of one
   of the two serial executions of the two requests.  The claim as stated;
   the code breaks it: the handlers read, decide and write with no lock. *)
C5_ConcurrentIsSerial ==
    (Active = {} /\ Len(episode.reqs) = 2) =>
        \/ SameDb(Db, Serial(episode.base, episode.reqs[1], episode.reqs[2]))
        \/ SameDb(Db, Serial(episode.base, episode.reqs[2], episode.reqs[1]))

(* C15: for a known unit, start always succeeds and leaves exactly one
   progress row for the (user, unit) pair, at (in_progress, 1, intro) with
   completedAt cleared, also when two start requests for the same
   never-started pair are served at the same time (both query "no row"
   before either commits).  The claim as stated; the code breaks it: both
   requests add a new row, and the commit of the second violates
   uq_user_unit, which start_unit does not handle. *)
C15_StartAlwaysSucceeds ==
    (resp.op = "start" /\ resp.unit \in DOMAIN units) =>
        /\ resp.code = 200
        /\ Key(resp) \in DOMAIN progress
        /\ progress[Key(resp)] = Row("in_progress", 1, "intro", << >>)

----------------------------------------------------------------------------
(* The catalog under the admin endpoints.  The endpoints take any caller's
   request (they depend on no current user); ids they create come from
   uuid4 and are new.  The learner's requests here are those of user u1. *)

\* rows an attempt table may hold under SpecCatalog and SpecScore
MaxScored == 1

\* ids that uuid4 may yield
NewUnitIds == {"unit_2"}
NewQuestionIds == {"q_2"}
NewReviewSetIds == {"rs_2"}

\* the response of an admin endpoint
AdminResponse(op, unit_id, arg, code, detail) ==
    Response(op, "", unit_id, arg, code, detail, NoData)

\* an admin endpoint has returned: the catalog is as it left it
AdminServed(r) ==
    /\ resp' = r
    /\ UNCHANGED <<users, progress, test_attempts, review_attempts,
                   user_badges, review_pending, inflight>>

\* POST /admin/units: a unit without steps
admin_create_unit ==
    \E unit_id \in NewUnitIds \ DOMAIN units :
        /\ units' = units @@ (unit_id :> [unitId |-> unit_id, steps |-> << >>])
        /\ UNCHANGED <<questions, review_sets>>
        /\ AdminServed(AdminResponse("admin_create_unit", unit_id, "", 200, ""))

\* POST /admin/questions: a test question, answer A, of the unit named
admin_create_question ==
    \E qid \in NewQuestionIds \ DOMAIN questions, unit_id \in NewUnitIds :
        IF UnitMissing(unit_id)
        THEN /\ UNCHANGED <<units, questions, review_sets>>
             /\ AdminServed(AdminResponse("admin_create_question", unit_id, "",
                                          404, "unit not found"))
        ELSE /\ questions' = questions @@
                    (qid :> Question(qid, unit_id, "test", <<"A">>))
             /\ UNCHANGED <<units, review_sets>>
             /\ AdminServed(AdminResponse("admin_create_question", unit_id, qid, 200, ""))

\* POST /admin/review-sets: a set of the unit named, over the seeded review
\* questions
admin_create_review_set ==
    \E set_id \in NewReviewSetIds \ DOMAIN review_sets, unit_id \in NewUnitIds :
        IF UnitMissing(unit_id)
        THEN /\ UNCHANGED <<units, questions, review_sets>>
             /\ AdminServed(AdminResponse("admin_create_review_set", unit_id, "",
                                          404, "unit not found"))
        ELSE /\ review_sets' = review_sets @@
                    (set_id :> [reviewSetId |-> set_id, unitId |-> unit_id,
                                questionIds |-> SeedReviewSets["rs_1"].questionIds,
                                requiredCorrectCount |-> 4])
             /\ UNCHANGED <<units, questions>>
             /\ AdminServed(AdminResponse("admin_create_review_set", unit_id,
                                          set_id, 200, ""))

\* a handler has returned, the attempt tables within MaxScored rows
ServedScored(out) ==
    /\ Len(out.db.test_attempts) <= MaxScored
    /\ Len(out.db.review_attempts) <= MaxScored
    /\ Served(out)

\* one of the requests reqs is made and served: a start, ...
RequestStart(reqs) ==
    \E req \in reqs :
        /\ req.op = "start"
        /\ ServedScored(start_unit(Db, req.user, req.unit))

\* ... a step, ...
RequestStep(reqs) ==
    \E req \in reqs :
        /\ req.op = "step"
        /\ ServedScored(unit_step(Db, req.user, req.unit, req.arg))

\* ... a test, ...
RequestTest(reqs) ==
    \E req \in reqs :
        /\ req.op = "test"
        /\ ServedScored(submit_test(Db, req.user, req.unit, req.answers, req.now))

\* ... a review
RequestReview(reqs) ==
    \E req \in reqs :
        /\ req.op = "review"
        /\ ServedScored(submit_review(Db, req.user, req.unit, req.arg, req.answers))

\* the answer of the admin-made question
OtherUnitAnswer == Answer("q_2", <<"A">>)

\* the learner's requests under SpecCatalog: start of the seeded and of the
\* new unit, the steps of the seeded unit, tests that fail, pass and pass
\* with an answer to the new question added, reviews (one of them with an
\* answer to the new question added) naming the seeded, the new and no
\* review set
CatalogRequests ==
    {Request("start", "u1", u, "", << >>, 1) : u \in {"unit_1", "unit_2"}}
    \cup {Request("step", "u1", "unit_1", t, << >>, 1) : t \in StepTypes}
    \cup {Request("test", "u1", "unit_1", "", b, 1) :
            b \in {SubSeq(TestSheet, 1, 1), SubSeq(TestSheet, 2, 2),
                   << TestSheet[2], OtherUnitAnswer >>}}
    \cup {Request("review", "u1", u, rs, b, 1) :
            u \in {"unit_1", "unit_2"},
            rs \in {"rs_1", "rs_2", "rs_9"},
            b \in {SubSeq(ReviewSheet, 1, 4), SubSeq(ReviewSheet, 2, 5),
                   SubSeq(ReviewSheet, 1, 4) \o << OtherUnitAnswer >>}}

NextCatalog ==
    \/ admin_create_unit
    \/ admin_create_question
    \/ admin_create_review_set
    \/ RequestStart(CatalogRequests)
    \/ RequestStep(CatalogRequests)
    \/ RequestTest(CatalogRequests)
    \/ RequestReview(CatalogRequests)

SpecCatalog == Init /\ [][NextCatalog]_vars

(* C13: submitReview is accepted only while currentStepType = review.  On
   every unit of the catalog, in every reachable state: with no progress row
   or with any other currentStepType it yields Conflict (409); in review,
   naming a review set id that is unknown or that belongs to a different
   unit yields NotFound (404); in all these cases the database is left as it
   was. *)
C13_ReviewRefusals ==
    \A req \in CatalogRequests :
        (req.op = "review" /\ req.unit \in DOMAIN units) =>
            LET out == submit_review(Db, req.user, req.unit, req.arg, req.answers)
                k   == <<req.user, req.unit>>
            IN  IF k \notin DOMAIN progress
                   \/ progress[k].current_step_type # "review"
                THEN out.resp.code = 409 /\ out.db = Db
                ELSE IF req.arg \notin DOMAIN review_sets
                        \/ review_sets[req.arg].unitId # req.unit
                THEN /\ out.resp.code = 404
                     /\ out.resp.detail = "review set not found"
                     /\ out.db = Db
                ELSE /\ out.resp.code # 409
                     /\ out.resp.detail # "review set not found"

\* C13's case: in review on unit_1, a submitReview naming the review set of
\* another unit has been refused with NotFound
C13_Witness ==
    /\ ServedRow("review")
    /\ resp.code = 404
    /\ resp.detail = "review set not found"
    /\ progress[Key(resp)].current_step_type = "review"
    /\ resp.arg \in DOMAIN review_sets
    /\ review_sets[resp.arg].unitId # resp.unit

----------------------------------------------------------------------------
(* Scoring.  The requests of user u1 on the seeded unit, with answer lists
   chosen for their scores. *)

\* answers to the test question (right, wrong), to no question, and to
\* questions of the unit that are not test questions (both answered rightly)
RightAnswer == TestSheet[2]
WrongAnswer == TestSheet[1]
UnknownAnswer == TestSheet[3]
PracticeAnswer == Answer("q_pr_1", <<"5">>)
ReviewAnswer == ReviewSheet[1]

\* n times x
Rep(x, n) == [i \in 1..n |-> x]

\* n answers to the test question, k of them right
Mix(k, n) == Rep(RightAnswer, k) \o Rep(WrongAnswer, n - k)

\* right answers out of how many: 0, 100, 33.33, 66.67, 75 and 80 percent
ScoredPairs == {<<0, 1>>, <<1, 1>>, <<1, 3>>, <<2, 3>>, <<3, 4>>, <<4, 5>>}

\* answers outside the filter of submit_test
OffTest == {PracticeAnswer, ReviewAnswer}

\* answer lists of the test requests: the scored ones, two of them with an
\* answer outside the filter added, a passing one with an unknown question
\* before or after it, and the empty one
ScoreTestBatches ==
    {Mix(p[1], p[2]) : p \in ScoredPairs}
    \cup {b \o << x >> : b \in {Mix(1, 1), Mix(4, 5)}, x \in OffTest}
    \cup {Mix(1, 1) \o << UnknownAnswer >>, << UnknownAnswer >> \o Mix(1, 1), << >>}

\* four review answers all right, and four with three right
ClearingReview == SubSeq(ReviewSheet, 1, 4)
UnclearedReview == SubSeq(ReviewSheet, 2, 5)

\* answers outside the filter of submit_review for rs_1
OffReview == {RightAnswer, PracticeAnswer}

\* answer lists of the review requests: the two reviews, each with an answer
\* outside the filter added, and each with an unknown question
ScoreReviewBatches ==
    {ClearingReview, UnclearedReview}
    \cup {b \o << x >> : b \in {ClearingReview, UnclearedReview}, x \in OffReview}
    \cup {ClearingReview \o << UnknownAnswer >>, << UnknownAnswer >> \o ClearingReview,
          UnclearedReview \o << UnknownAnswer >>}

ScoreRequests ==
    {Request("start", "u1", "unit_1", "", << >>, 1)}
    \cup {Request("step", "u1", "unit_1", t, << >>, 1) : t \in StepTypes}
    \cup {Request("test", "u1", "unit_1", "", b, now) :
            b \in ScoreTestBatches, now \in Timestamps}
    \cup {Request("review", "u1", "unit_1", "rs_1", b, 1) : b \in ScoreReviewBatches}

NextScore ==
    \/ RequestStart(ScoreRequests)
    \/ RequestStep(ScoreRequests)
    \/ RequestTest(ScoreRequests)
    \/ RequestReview(ScoreRequests)

SpecScore == Init /\ [][NextScore]_vars

\* some answer of the list names a question that does not exist
NamesUnknown(answers) ==
    \E i \in 1..Len(answers) : answers[i].questionId \notin DOMAIN questions

(* C14: in every reachable state where the other preconditions of submitTest
   (row exists, not in review, order >= 3, answers non-empty) or of
   submitReview (row in review, review set of the unit) hold, a batch in
   which any answer names a question id that does not exist is refused whole
   with NotFound (404), whatever the other answers are: the response carries
   no score, and the progress table and both attempt tables are left as they
   were. *)
C14_UnknownQuestionFailsBatch ==
    \A req \in ScoreRequests :
        LET k == <<req.user, req.unit>> IN
        /\ ( /\ req.op = "test"
             /\ k \in DOMAIN progress
             /\ progress[k].current_step_type # "review"
             /\ progress[k].current_step_order >= 3
             /\ NamesUnknown(req.answers) )
           => LET out == submit_test(Db, req.user, req.unit, req.answers, req.now)
              IN  /\ out.resp.code = 404
                  /\ out.resp.detail = "question not found"
                  /\ out.resp.data = NoData
                  /\ out.db = Db
        /\ ( /\ req.op = "review"
             /\ k \in DOMAIN progress
             /\ progress[k].current_step_type = "review"
             /\ NamesUnknown(req.answers) )
           => LET out == submit_review(Db, req.user, req.unit, req.arg, req.answers)
              IN  /\ out.resp.code = 404
                  /\ out.resp.detail = "question not found"
                  /\ out.resp.data = NoData
                  /\ out.db = Db

\* C14's case: in review, a batch whose other answers would clear the review
\* has been refused for its unknown question, and the row is still in review
C14_Witness ==
    /\ ServedRow("review")
    /\ resp.code = 404
    /\ resp.detail = "question not found"
    /\ progress[Key(resp)].current_step_type = "review"
    /\ review_attempts = << >>
    /\ submit_review(Db, resp.user, resp.unit, resp.arg, ClearingReview).resp.data[1].isCleared
    /\ submit_review(Db, resp.user, resp.unit, resp.arg,
                     ClearingReview \o << UnknownAnswer >>).resp = resp

\* the answers of the list that are right by the rule of submitTest: the
\* question is of the unit, a test question, and the trimmed answer is the
\* trimmed correct answer, character for character
RightForTest(answers, unit_id) ==
    {i \in 1..Len(answers) :
        /\ questions[answers[i].questionId].unitId = unit_id
        /\ questions[answers[i].questionId].stepType = "test"
        /\ Strip(answers[i].answer) = Strip(questions[answers[i].questionId].correctAnswer)}

\* s hundredths of a percent is correct / total * 100 rounded to 2 decimals:
\* no hundredth lies nearer to the quotient
RoundedPercent(s, correct, total) ==
    LET diff == s * total - correct * 10000 IN
    /\ 2 * diff <= total
    /\ 2 * (0 - diff) <= total

(* C17: for every submitTest batch that is accepted (preconditions hold, all
   question ids known), in every reachable state: scorePercent is
   correctCount / totalAnswers * 100 rounded to 2 decimals, where
   correctCount is the number of answers whose question belongs to the unit,
   has stepType test and whose trimmed answer equals the trimmed correct
   answer case-sensitively; and isPassed holds exactly when scorePercent >=
   80, the threshold included. *)
C17_ScoreAndThreshold ==
    \A req \in ScoreRequests :
        ( /\ req.op = "test"
          /\ TestPreconditions(req.user, req.unit, req.answers) ) =>
            LET out == submit_test(Db, req.user, req.unit, req.answers, req.now)
                d   == out.resp.data[1]
            IN  /\ out.resp.code = 200
                /\ RoundedPercent(d.scorePercent,
                                  Cardinality(RightForTest(req.answers, req.unit)),
                                  Len(req.answers))
                /\ d.isPassed <=> (d.scorePercent >= 80 * 100)
                /\ d.passThreshold = 80

\* C17's case: a test with four right answers out of five has been scored
\* 80.00 and passed, and the unit is completed
C17_Witness ==
    /\ ServedRow("test")
    /\ resp.code = 200
    /\ resp.data[1].scorePercent = 8000
    /\ resp.data[1].isPassed
    /\ progress[Key(resp)].status = "completed"
    /\ test_attempts = << [user_id |-> resp.user, unit_id |-> resp.unit,
                           score_percent |-> 8000, is_passed |-> TRUE] >>

\* answers to existing questions that the filter of submit_test leaves out:
\* the question is of another unit or is no test question
OffTestFilter(unit_id) ==
    {x \in {PracticeAnswer, ReviewAnswer, OtherUnitAnswer} :
        /\ x.questionId \in DOMAIN questions
        /\ \/ questions[x.questionId].unitId # unit_id
           \/ questions[x.questionId].stepType # "test"}

\* answers to existing questions that are not of review set rs
OffReviewFilter(rs) ==
    {x \in {RightAnswer, PracticeAnswer, OtherUnitAnswer} :
        /\ x.questionId \in DOMAIN questions
        /\ ~InList(x.questionId, rs.questionIds)}

\* the accepted test batches and review batches an answer is added to
BaseTestBatches == {Mix(p[1], p[2]) : p \in ScoredPairs}
BaseReviewBatches == {ClearingReview, UnclearedReview}

(* C18, as stated: an answer to an existing question outside the target
   filter, added to a batch, never causes an error and never changes
   correctCount, the verdict (isPassed / isCleared) or the resulting
   transition. *)
C18_OffFilterAnswerChangesNothing ==
    \A user \in users, unit_id \in DOMAIN units :
        /\ \A b \in BaseTestBatches, x \in OffTestFilter(unit_id) :
              TestPreconditions(user, unit_id, b) =>
                LET one == submit_test(Db, user, unit_id, b, 1)
                    two == submit_test(Db, user, unit_id, b \o << x >>, 1)
                IN  /\ two.resp.code = 200
                    /\ TestCorrect(b \o << x >>, unit_id) = TestCorrect(b, unit_id)
                    /\ two.resp.data[1].isPassed = one.resp.data[1].isPassed
                    /\ two.db.progress = one.db.progress
        /\ \A rs \in DOMAIN review_sets, b \in BaseReviewBatches :
           \A x \in OffReviewFilter(review_sets[rs]) :
              ReviewPreconditions(user, unit_id, rs, b) =>
                LET one == submit_review(Db, user, unit_id, rs, b)
                    two == submit_review(Db, user, unit_id, rs, b \o << x >>)
                IN  /\ two.resp.code = 200
                    /\ two.resp.data[1].correctCount = one.resp.data[1].correctCount
                    /\ two.resp.data[1].isCleared = one.resp.data[1].isCleared
                    /\ two.db.progress = one.db.progress

(* C18, amended: an answer to an existing question outside the target
   filter, added to a batch, never causes an error and never changes
   correctCount.  For submitReview it changes neither isCleared nor the
   transition (response and database are the same).  For submitTest it
   counts in totalAnswers: scorePercent becomes correctCount /
   (totalAnswers + 1) * 100 rounded to 2 decimals, never higher than before,
   and isPassed follows that score, so a batch that passed may fail. *)
C18_OffFilterAnswerNeverCounts ==
    \A user \in users, unit_id \in DOMAIN units :
        /\ \A b \in BaseTestBatches, x \in OffTestFilter(unit_id) :
              TestPreconditions(user, unit_id, b) =>
                LET one == submit_test(Db, user, unit_id, b, 1)
                    two == submit_test(Db, user, unit_id, b \o << x >>, 1)
                IN  /\ two.resp.code = 200
                    /\ TestCorrect(b \o << x >>, unit_id) = TestCorrect(b, unit_id)
                    /\ RoundedPercent(two.resp.data[1].scorePercent,
                                      TestCorrect(b, unit_id), Len(b) + 1)
                    /\ two.resp.data[1].scorePercent <= one.resp.data[1].scorePercent
                    /\ two.resp.data[1].isPassed <=>
                          (two.resp.data[1].scorePercent >= 80 * 100)
        /\ \A rs \in DOMAIN review_sets, b \in BaseReviewBatches :
           \A x \in OffReviewFilter(review_sets[rs]) :
              ReviewPreconditions(user, unit_id, rs, b) =>
                LET one == submit_review(Db, user, unit_id, rs, b)
                    two == submit_review(Db, user, unit_id, rs, b \o << x >>)
                IN  /\ two.resp.code = 200
                    /\ two.resp = one.resp
                    /\ two.db = one.db

\* C18's case: a right test answer sent with a right answer to the test
\* question of another unit has been scored 50.00 and failed
C18_Witness ==
    /\ ServedRow("test")
    /\ resp.code = 200
    /\ resp.data[1].scorePercent = 5000
    /\ ~resp.data[1].isPassed
    /\ progress[Key(resp)].current_step_type = "review"
    /\ OtherUnitAnswer.questionId \in DOMAIN questions
    /\ questions[OtherUnitAnswer.questionId].unitId # resp.unit
    /\ questions[OtherUnitAnswer.questionId].stepType = "test"

----------------------------------------------------------------------------
(* Badges. *)

\* the badge of the first completion, of main.badges_catalog
FirstCompletionBadge == "b_first"

\* what the badge endpoints leave as it was: all but the response
badge_untouched == <<catalog, progress, test_attempts, review_attempts,
                     user_badges, review_pending, inflight>>

\* user_badges.get(current_user.id, [])
BadgesOf(user) ==
    IF user \in DOMAIN user_badges THEN user_badges[user] ELSE << >>

\* GET /badges/me
my_badges ==
    \E user \in users :
        /\ resp' = Response("my_badges", user, "", "", 200, "",
                            << [badges |-> BadgesOf(user)] >>)
        /\ UNCHANGED badge_untouched

\* POST /badges/evaluate: takes no user and returns ok({})
eval_badges ==
    /\ resp' = Response("eval_badges", "", "", "", 200, "", NoData)
    /\ UNCHANGED badge_untouched

NextBadges ==
    \/ Next
    \/ my_badges
    \/ eval_badges

SpecBadges == Init /\ [][NextBadges]_vars

(* C20: after a user has completed a unit (start, unlock practice, passing
   submitTest) and badge evaluation has then been called, that user's badge
   list contains the first-completion badge b_first.  Stated for the badge
   list read right after the evaluation.  The claim as stated; the code
   breaks it: eval_badges awards nothing and user_badges is never written. *)
C20_FirstCompletionBadge ==
    [][ ( /\ resp.op = "eval_badges"
          /\ resp.code = 200
          /\ resp'.op = "my_badges"
          /\ \E unit_id \in DOMAIN units :
                /\ <<resp'.user, unit_id>> \in DOMAIN progress
                /\ progress[<<resp'.user, unit_id>>].status = "completed" )
        => InList(FirstCompletionBadge, resp'.data[1].badges) ]_vars

----------------------------------------------------------------------------
(* Answering one question, and the progress summary. *)

\* the questions of main.hints that have a hint
HintedQuestions == {"q_t_1"}

\* question ids and answers of the answer requests
AnsweredQuestionIds == {"q_pr_1", "q_t_1", "q_zz"}
GivenAnswers == {<<"5">>, <<"A", " ">>}

\* what the two endpoints leave as it was: all but the response
summary_untouched == <<catalog, progress, test_attempts, review_attempts,
                       user_badges, review_pending, inflight>>

\* POST /questions/{question_id}/answer: the handler takes no user and
\* writes nothing; user is the caller who sent the request
answer_question ==
    \E user \in users, question_id \in AnsweredQuestionIds, answer \in GivenAnswers :
        /\ resp' =
              IF question_id \notin DOMAIN questions
              THEN Response("answer", user, "", question_id, 404,
                            "question not found", NoData)
              ELSE LET q == questions[question_id]
                       correct == Strip(answer) = Strip(q.correctAnswer)
                   IN  Response("answer", user, "", question_id, 200, "",
                                << [isCorrect |-> correct,
                                    correctAnswer |-> q.correctAnswer,
                                    nextHintAvailable |->
                                        (~correct /\ question_id \in HintedQuestions)] >>)
        /\ UNCHANGED summary_untouched

\* how many rows of the user have the status
CountStatus(user, status) ==
    Cardinality({k \in DOMAIN progress : k[1] = user /\ progress[k].status = status})

\* GET /progress/summary
progress_summary ==
    \E user \in users :
        /\ resp' = Response("summary", user, "", "", 200, "",
                            << [completedUnits |-> CountStatus(user, "completed"),
                                inProgressUnits |-> CountStatus(user, "in_progress"),
                                streakDays |-> 0,
                                todaySolvedCount |-> 0] >>)
        /\ UNCHANGED summary_untouched

NextSummary ==
    \/ Next
    \/ answer_question
    \/ progress_summary

SpecSummary == Init /\ [][NextSummary]_vars

(* C21: after a user has answered a question through the answer operation,
   the progress summary for that user reports todaySolvedCount >= 1.  Stated
   for the summary read right after the answer.  The claim as stated; the
   code breaks it: answer_question records nothing and progress_summary
   returns the constant 0. *)
C21_TodaySolvedCount ==
    [][ ( /\ resp.op = "answer"
          /\ resp.code = 200
          /\ resp'.op = "summary"
          /\ resp'.user = resp.user )
        => resp'.data[1].todaySolvedCount >= 1 ]_vars

----------------------------------------------------------------------------
(* The admin endpoints for units and steps. *)

\* unit ids and step ids of the admin requests: seeded, created, unknown
AdminUnitIds == {"unit_1", "unit_2", "unit_9"}
AdminStepIds == {"st_4", "st_5", "st_9"}

\* the step id uuid4 may yield
NewStepIds == {"st_5"}

\* stepType and stepOrder of AdminStepUpsertRequest: the fixed pair of the
\* test step, and two pairs that are not fixed pairs
StepEdits ==
    { [stepType |-> "test",  stepOrder |-> 4],
      [stepType |-> "test",  stepOrder |-> 1],
      [stepType |-> "intro", stepOrder |-> 4] }

\* the step ids of the catalog
StepIdsOf(us) ==
    UNION {{us[u].steps[i].stepId : i \in 1..Len(us[u].steps)} : u \in DOMAIN us}

\* PUT /admin/units/{unit_id}: title and the like, none of which the
\* progression reads
admin_update_unit ==
    \E unit_id \in AdminUnitIds :
        /\ UNCHANGED <<units, questions, review_sets>>
        /\ AdminServed(IF UnitMissing(unit_id)
                       THEN AdminResponse("admin_update_unit", unit_id, "", 404,
                                          "unit not found")
                       ELSE AdminResponse("admin_update_unit", unit_id, "", 200, ""))

\* DELETE /admin/units/{unit_id}
admin_delete_unit ==
    \E unit_id \in AdminUnitIds :
        IF UnitMissing(unit_id)
        THEN /\ UNCHANGED <<units, questions, review_sets>>
             /\ AdminServed(AdminResponse("admin_delete_unit", unit_id, "", 404,
                                          "unit not found"))
        ELSE /\ units' = [u \in DOMAIN units \ {unit_id} |-> units[u]]
             /\ UNCHANGED <<questions, review_sets>>
             /\ AdminServed(AdminResponse("admin_delete_unit", unit_id, "", 200, ""))

\* POST /admin/units/{unit_id}/steps: the step is appended as requested
admin_create_step ==
    \E unit_id \in AdminUnitIds, step_id \in NewStepIds \ StepIdsOf(units),
       req \in StepEdits :
        IF UnitMissing(unit_id)
        THEN /\ UNCHANGED <<units, questions, review_sets>>
             /\ AdminServed(AdminResponse("admin_create_step", unit_id, "", 404,
                                          "unit not found"))
        ELSE /\ units' = [units EXCEPT ![unit_id].steps =
                              Append(@, Step(step_id, req.stepOrder, req.stepType))]
             /\ UNCHANGED <<questions, review_sets>>
             /\ AdminServed(AdminResponse("admin_create_step", unit_id, step_id, 200, ""))

\* PUT /admin/steps/{step_id}: the step with that id takes the requested
\* type and order
admin_update_step ==
    \E step_id \in AdminStepIds, req \in StepEdits :
        IF step_id \notin StepIdsOf(units)
        THEN /\ UNCHANGED <<units, questions, review_sets>>
             /\ AdminServed(AdminResponse("admin_update_step", "", step_id, 404,
                                          "step not found"))
        ELSE /\ units' =
                  [u \in DOMAIN units |->
                      [units[u] EXCEPT !.steps =
                          [i \in 1..Len(units[u].steps) |->
                              IF units[u].steps[i].stepId = step_id
                              THEN Step(step_id, req.stepOrder, req.stepType)
                              ELSE units[u].steps[i]]]]
             /\ UNCHANGED <<questions, review_sets>>
             /\ AdminServed(AdminResponse("admin_update_step", "", step_id, 200, ""))

\* the learner's requests under SpecAdmin: start and the steps
AdminSpecRequests ==
    {Request("start", "u1", u, "", << >>, 1) : u \in {"unit_1", "unit_2"}}
    \cup {Request("step", "u1", u, t, << >>, 1) :
            u \in {"unit_1", "unit_2"}, t \in StepTypes}

NextAdmin ==
    \/ admin_create_unit
    \/ admin_update_unit
    \/ admin_delete_unit
    \/ admin_create_step
    \/ admin_update_step
    \/ RequestStart(AdminSpecRequests)
    \/ RequestStep(AdminSpecRequests)

SpecAdmin == Init /\ [][NextAdmin]_vars

(* C22: in every reachable catalog state (after any sequence of admin unit
   and step create, update and delete operations) every unit has exactly 4
   steps, with orders 1..4 and the fixed types 1:intro, 2:example,
   3:practice, 4:test, so the order that accessStep looks up for a step type
   is the fixed one.  The claim as stated; the code breaks it:
   admin_create_unit makes a unit with no steps, and the step endpoints take
   any type with any order. *)
C22_FourFixedSteps ==
    \A u \in DOMAIN units :
        /\ Len(units[u].steps) = 4
        /\ \A t \in StepTypes :
              /\ Cardinality({i \in 1..4 : units[u].steps[i].stepType = t}) = 1
              /\ FindStep(units[u].steps, t)[1].stepOrder = FixedOrder[t]

----------------------------------------------------------------------------
(* The stored progress records, under Spec: the seeded catalog, whose units
   have the four fixed steps. *)

\* the step types a row at this order may name
TypesAtOrder(order) ==
    IF order = 3 THEN {"practice", "review"}
    ELSE {t \in StepTypes : FixedOrder[t] = order}

(* C23: with the fixed 4-step catalog, every stored progress record reachable
   by start, accessStep, submitTest and submitReview has status in_progress
   or completed, currentStepOrder in 1..4 and a currentStepType consistent
   with the order: 1 intro, 2 example, 3 practice or review, 4 test; so
   review implies order 3. *)
C23_RowsAreConsistent ==
    \A k \in DOMAIN progress :
        LET p == progress[k] IN
        /\ p.status \in {"in_progress", "completed"}
        /\ p.current_step_order \in 1..4
        /\ p.current_step_type \in TypesAtOrder(p.current_step_order)
        /\ p.current_step_type = "review" => p.current_step_order = 3

\* a cleared review has moved the row from review at order 3 to the test
\* step at order 4
C23_Witness ==
    /\ ServedRow("review")
    /\ resp.code = 200
    /\ resp.data[1].isCleared
    /\ progress[Key(resp)].current_step_order = 4
    /\ progress[Key(resp)].current_step_type = "test"

\* the test attempts recorded for the pair k, oldest first
TestAttemptsOf(k) ==
    SelectSeq(test_attempts, LAMBDA a : a.user_id = k[1] /\ a.unit_id = k[2])

\* the pair k has a row in table t and the row is in review
InReview(t, k) == k \in DOMAIN t /\ t[k].current_step_type = "review"

(* C24: in every state reachable by sequential operations, a row is in
   review only if the most recent test attempt recorded for its (user, unit)
   is a failed one and neither a start nor a cleared submitReview has
   happened since (review_pending holds the pairs in that span); and a row
   enters review only by a submitTest scored as failed. *)
C24_ReviewOnlyAfterFailedTest ==
    /\ [](\A k \in DOMAIN progress :
            InReview(progress, k) =>
                /\ k \in review_pending
                /\ TestAttemptsOf(k) # << >>
                /\ ~TestAttemptsOf(k)[Len(TestAttemptsOf(k))].is_passed)
    /\ [][ \A k \in DOMAIN progress' :
              (InReview(progress', k) /\ ~InReview(progress, k)) =>
                  /\ resp'.op = "test"
                  /\ resp'.code = 200
                  /\ Key(resp') = k
                  /\ ~resp'.data[1].isPassed ]_vars

\* a row in review whose pair has an earlier passed attempt and a start in
\* between: the latest attempt is the failed one
C24_Witness ==
    /\ \E k \in DOMAIN progress :
          /\ InReview(progress, k)
          /\ Len(TestAttemptsOf(k)) = 2
          /\ TestAttemptsOf(k)[1].is_passed
    /\ resp.op \in {"step", "review", "progress"}

(* C25: in every state reachable by sequential operations, a row has status
   completed exactly when its completedAt is non-null, and a completed row is
   at order 4, type test, with the most recent test attempt recorded for its
   (user, unit) a passed one. *)
C25_CompletedMeansPassed ==
    \A k \in DOMAIN progress :
        LET p == progress[k] IN
        /\ (p.status = "completed") <=> (p.completed_at # << >>)
        /\ p.status = "completed" =>
              /\ p.current_step_order = 4
              /\ p.current_step_type = "test"
              /\ TestAttemptsOf(k) # << >>
              /\ TestAttemptsOf(k)[Len(TestAttemptsOf(k))].is_passed

\* a completed row with a failed attempt before the passed one, read again
\* through the test step
C25_Witness ==
    /\ ServedRow("step")
    /\ resp.code = 200
    /\ progress[Key(resp)].status = "completed"
    /\ Len(TestAttemptsOf(Key(resp))) = 2
    /\ ~TestAttemptsOf(Key(resp))[1].is_passed

----------------------------------------------------------------------------
(* Review answer lists that name one question more than once. *)

\* answer lists of the review requests: the right answer to q_r_1 four times
\* and six times, and the lists of four distinct questions
RepeatReviewBatches ==
    {Rep(ReviewAnswer, 4), Rep(ReviewAnswer, 6), ClearingReview, UnclearedReview}

RepeatRequests ==
    {Request("start", "u1", "unit_1", "", << >>, 1)}
    \cup {Request("step", "u1", "unit_1", t, << >>, 1) : t \in StepTypes}
    \cup {Request("test", "u1", "unit_1", "", b, now) :
            b \in {Mix(0, 1), Mix(1, 1)}, now \in Timestamps}
    \cup {Request("review", "u1", "unit_1", "rs_1", b, 1) : b \in RepeatReviewBatches}

NextRepeat ==
    \/ RequestStart(RepeatRequests)
    \/ RequestStep(RepeatRequests)
    \/ RequestTest(RepeatRequests)
    \/ RequestReview(RepeatRequests)

SpecRepeat == Init /\ [][NextRepeat]_vars

\* the questions of review set rs that the list answers correctly
CorrectQuestions(answers, rs) ==
    {answers[i].questionId : i \in {j \in 1..Len(answers) :
                                        ReviewAnswerCounts(answers[j], rs)}}

(* C26: in every submitReview response each question of the review set is
   counted at most once: correctCount <= questionCount, and the review is
   cleared only when at least requiredCorrectCount distinct questions of the
   named review set were answered correctly; repeating a question in the
   answer list does not raise the count.  The claim as stated; the code
   breaks it: submit_review adds one for every answer of the list. *)
C26_EachQuestionCountedOnce ==
    \A req \in RepeatRequests :
        req.op = "review" =>
            LET out == submit_review(Db, req.user, req.unit, req.arg, req.answers)
                rs == review_sets[req.arg]
            IN  out.resp.code = 200 =>
                    /\ out.resp.data[1].correctCount <= out.resp.data[1].questionCount
                    /\ out.resp.data[1].correctCount
                          = Cardinality(CorrectQuestions(req.answers, rs))
                    /\ out.resp.data[1].isCleared =>
                          Cardinality(CorrectQuestions(req.answers, rs))
                              >= rs.requiredCorrectCount

----------------------------------------------------------------------------
(* The attempt tables, under Spec. *)

\* the database with both attempt tables emptied
WithoutAttempts == [Db EXCEPT !.test_attempts = << >>, !.review_attempts = << >>]

\* the handler's response and progress table are the same on a and on b
SameEffect(a, b) == a.resp = b.resp /\ a.db.progress = b.db.progress

(* C27: TestAttempt and ReviewAttempt records are append-only.  Each
   successful submitTest or submitReview appends exactly one record, whose
   score or correctCount and verdict are those returned to the caller; every
   other call, start included, leaves both tables as they were; and no
   handler reads an attempt to decide a transition: on the database with the
   attempt tables emptied it gives the same response and the same rows. *)
C27_AttemptsAppendOnly ==
    /\ [][ /\ IF resp'.op = "test" /\ resp'.code = 200
              THEN test_attempts' =
                       Append(test_attempts,
                              [user_id |-> resp'.user, unit_id |-> resp'.unit,
                               score_percent |-> resp'.data[1].scorePercent,
                               is_passed |-> resp'.data[1].isPassed])
              ELSE test_attempts' = test_attempts
           /\ IF resp'.op = "review" /\ resp'.code = 200
              THEN review_attempts' =
                       Append(review_attempts,
                              [user_id |-> resp'.user, unit_id |-> resp'.unit,
                               review_set_id |-> resp'.arg,
                               correct_count |-> resp'.data[1].correctCount,
                               is_cleared |-> resp'.data[1].isCleared])
              ELSE review_attempts' = review_attempts ]_vars
    /\ [](\A user \in users, unit_id \in UnitIds :
            /\ SameEffect(start_unit(Db, user, unit_id),
                          start_unit(WithoutAttempts, user, unit_id))
            /\ SameEffect(unit_progress(Db, user, unit_id),
                          unit_progress(WithoutAttempts, user, unit_id))
            /\ \A t \in StepTypes :
                  SameEffect(unit_step(Db, user, unit_id, t),
                             unit_step(WithoutAttempts, user, unit_id, t))
            /\ \A b \in Batches :
                  /\ \A now \in Timestamps :
                        SameEffect(submit_test(Db, user, unit_id, b, now),
                                   submit_test(WithoutAttempts, user, unit_id, b, now))
                  /\ \A rs \in ReviewSetIds :
                        SameEffect(submit_review(Db, user, unit_id, rs, b),
                                   submit_review(WithoutAttempts, user, unit_id, rs, b)))

\* a start has reset a unit that has a test attempt and a review attempt on
\* record, and both are still there
C27_Witness ==
    /\ ServedRow("start")
    /\ resp.code = 200
    /\ TestAttemptsOf(Key(resp)) # << >>
    /\ \E i \in 1..Len(review_attempts) :
          /\ review_attempts[i].user_id = resp.user
          /\ review_attempts[i].unit_id = resp.unit

----------------------------------------------------------------------------
(* Two learners and two units. *)

\* e-mail addresses of SignupRequest: that of u1 and a new one.  A user row
\* is named by its e-mail address here: id is a fresh uuid and email is unique
SignupEmails == {"u1", "u2"}

(* POST /auth/signup *)
signup ==
    \E email \in SignupEmails :
        /\ IF email \in users
           THEN /\ users' = users
                /\ resp' = Response("signup", email, "", "", 400,
                                    "email already exists", NoData)
           ELSE /\ users' = users \cup {email}
                /\ resp' = Response("signup", email, "", "", 200, "", NoData)
        /\ UNCHANGED <<units, questions, review_sets, progress, test_attempts,
                       review_attempts, user_badges, review_pending, inflight>>

\* the requests of the users there are.  On the seeded unit: start, the
\* example and practice steps, a failed and a passed test, a cleared and an
\* uncleared review; on the unit an admin may have created: start and a test
PairRequests ==
    UNION { {Request("start", u, n, "", << >>, 1) : n \in {"unit_1"} \cup NewUnitIds}
            \cup {Request("step", u, "unit_1", t, << >>, 1) : t \in {"example", "practice"}}
            \cup {Request("test", u, "unit_1", "", b, 1) : b \in {Mix(0, 1), Mix(1, 1)}}
            \cup {Request("test", u, n, "", Mix(1, 1), 1) : n \in NewUnitIds}
            \cup {Request("review", u, "unit_1", "rs_1", b, 1) :
                    b \in {ClearingReview, UnclearedReview}}
            : u \in users }

NextPairs ==
    \/ signup
    \/ admin_create_unit
    \/ RequestStart(PairRequests)
    \/ RequestStep(PairRequests)
    \/ RequestTest(PairRequests)
    \/ RequestReview(PairRequests)

SpecPairs == Init /\ [][NextPairs]_vars

\* the attempts of table t that are not of the pair k
AttemptsOfOthers(t, k) ==
    SelectSeq(t, LAMBDA a : <<a.user_id, a.unit_id>> # k)

(* C28: every start, accessStep, submitTest and submitReview on a (user,
   unit) pair leaves the progress rows and the attempts of every other pair
   as they were, whether the call succeeds or fails: in every reachable
   state, for every request. *)
C28_OtherPairsUntouched ==
    \A req \in PairRequests :
        LET out == Handle(Db, req)
            k   == <<req.user, req.unit>>
        IN  /\ DOMAIN out.db.progress \ {k} = DOMAIN progress \ {k}
            /\ \A j \in DOMAIN progress \ {k} : out.db.progress[j] = progress[j]
            /\ AttemptsOfOthers(out.db.test_attempts, k)
                  = AttemptsOfOthers(test_attempts, k)
            /\ AttemptsOfOthers(out.db.review_attempts, k)
                  = AttemptsOfOthers(review_attempts, k)

\* u1 has cleared a review while u2 has a row on the same unit, past the
\* first step, and u1 has a row on another unit
C28_Witness ==
    /\ ServedRow("review")
    /\ resp.code = 200
    /\ resp.data[1].isCleared
    /\ \E j \in DOMAIN progress :
          /\ j[1] # resp.user
          /\ j[2] = resp.unit
          /\ progress[j].current_step_order >= 2
    /\ \E j \in DOMAIN progress : j[1] = resp.user /\ j[2] # resp.unit

====
